---------------------------- MODULE Spec2Model ----------------------------
(***************************************************************************)
(* mr::Manager<T> (include/mr-manager/manager.hpp) for T = int: a per-type *)
(* registry of Entries in a folly::ConcurrentHashMap keyed by string       *)
(* identifiers, each Entry owning one slot of a pooled allocator over a    *)
(* fixed buffer.  Several threads call create / create(unnamed) / find /   *)
(* clear and read, write and drop the Handles they got.                    *)
(*                                                                         *)
(* Identifiers are std::string: sequences of character codes.              *)
(* The map's operations are modelled at the granularity the container      *)
(* gives them: insert_or_assign links a constructed node atomically and    *)
(* retires the node it replaces, find is atomic, clear() empties one       *)
(* segment at a time, an iterator (a Handle) protects the node it is on    *)
(* from reclamation, and retired nodes are destroyed later.                *)
(***************************************************************************)
EXTENDS Integers, Sequences, FiniteSets

\* ---- bounds of the model ----
NumThreads == 2
\* Entries the callers of Spec construct in all
MaxCreates == 2
\* rounds of each worker of SpecStress (operations_per_thread in the test)
MaxRounds == 2
\* calls of each instantiation of create(unnamed, ...)
MaxUnnamed == 2
MaxVal == 2
\* segments of the map
NumSegments == 2

\* Manager::_max_elements (1024 in the source), scaled down so that the
\* workers of SpecStress create more Entries than the buffer has slots, as
\* the 4 x 1000 creates of ConcurrencyStressTest do.
max_elements == 2

\* the most Entries a behaviour of the model constructs
MaxEntries ==
  IF MaxCreates > NumThreads * MaxRounds THEN MaxCreates ELSE NumThreads * MaxRounds

Threads == 1..NumThreads
\* the constructor arguments of the model's create calls
Values == 1..MaxVal
\* the ints the model's callers store through a Handle (handle.value() = 99
\* in the HandleValidity test): never a constructor argument
WriteValues == {MaxVal + 1}
EntryIds == 1..MaxEntries
Slots == 0..(MaxEntries - 1)

\* positions a Handle's iterator can have besides an Entry of EntryIds
End == 0
NoHandle == -1

\* what a slot holds that holds no int of the model
Free == -1
Garbage == -2
\* no constructor argument
NoVal == -1

\* the instantiations of create(UnnamedTag, Args&&...) a caller of
\* Manager<int> can name: Args = int (an rvalue) and Args = int& (an lvalue)
ArgSigs == {"int", "int&"}

\* ---- std::string identifiers ----
\* std::to_string(int): decimal digits, '-' first when negative
RECURSIVE to_string(_)
to_string(n) ==
  IF n < 0 THEN <<45>> \o to_string(0 - n)
  ELSE IF n < 10 THEN <<48 + n>>
  ELSE to_string(n \div 10) \o <<48 + (n % 10)>>

\* the names callers pass to create(id, ...) and find(id): "a" and "0"
Names == {<<97>>, <<48>>}

\* the identifier worker thread_id of ConcurrencyStressTest creates in its
\* i-th round: "thread_" + to_string(thread_id) + "_" + to_string(i)
StressId(thread_id, i) ==
  <<116, 104, 114, 101, 97, 100, 95>> \o to_string(thread_id) \o <<95>> \o to_string(i)

\* every identifier the bounded model can hold
Ids == Names \cup {to_string(i) : i \in 0..MaxUnnamed}
             \cup {StressId(t, i) : t \in 1..NumThreads, i \in 0..MaxRounds}

\* std::atomic_int::operator++: two's complement wrap-around at 32 bits
IncInt(x) == IF x = 2147483647 THEN (0 - 2147483647) - 1 ELSE x + 1

RECURSIVE SumCodes(_)
SumCodes(s) == IF s = <<>> THEN 0 ELSE Head(s) + SumCodes(Tail(s))

\* the segment (shard) of the map an identifier hashes to
SegmentOf(id) == SumCodes(id) % NumSegments

VARIABLES
  pc,         \* pc[t]: where thread t is inside a call ("idle" between calls)
  key,        \* key[t]: the identifier of t's create, until its Handle is given up
  val,        \* val[t]: the constructor argument of t's create, until the Entry holds it
  mine,       \* mine[t]: the Entry t's create constructed, until its Handle is given up
  handle,     \* handle[t]: the Handle t holds: an Entry, End, or NoHandle
  seg,        \* seg[t]: the segment clear() of t empties next
  round,      \* round[t]: the loop counter i of a ConcurrencyStressTest worker
  table,      \* _table: the Entries linked in the map
  entries,    \* every Entry constructed so far
  mem,        \* the allocator's slots: the int stored there, or Free
  carved,     \* slots carved so far from the monotonic resource
  cnt,        \* cnt[sig]: the static counter of each create(unnamed) instantiation
  anon,       \* anon[t]: t is inside create(unnamed, ...), not create(id, ...)
  lastCreate, \* history: the Entry last installed under each identifier, 0 once cleared
  clearClean  \* history: no insert_or_assign ran during t's clear() so far

vars == <<pc, key, val, mine, handle, seg, round, table, entries, mem,
          carved, cnt, anon, lastCreate, clearClean>>

history == <<lastCreate, clearClean>>

\* an Entry that does not exist (not constructed yet, or destroyed)
NoEntry == [key |-> <<>>, ptr |-> 0, st |-> "none", arg |-> NoVal, dirty |-> FALSE]
Destroyed == [key |-> <<>>, ptr |-> 0, st |-> "destroyed", arg |-> NoVal, dirty |-> FALSE]

Init ==
  /\ pc = [t \in Threads |-> "idle"]
  /\ key = [t \in Threads |-> <<>>]
  /\ val = [t \in Threads |-> NoVal]
  /\ mine = [t \in Threads |-> 0]
  /\ handle = [t \in Threads |-> NoHandle]
  /\ seg = [t \in Threads |-> 0]
  /\ round = [t \in Threads |-> 0]
  /\ table = {}
  /\ entries = [e \in EntryIds |-> NoEntry]
  /\ mem = [s \in Slots |-> Free]
  /\ carved = 0
  /\ cnt = [s \in ArgSigs |-> 0]
  /\ anon = [t \in Threads |-> FALSE]
  /\ lastCreate = [k \in Ids |-> 0]
  /\ clearClean = [t \in Threads |-> TRUE]

\* ---- state functions ----
Constructed == {e \in EntryIds : entries[e].st # "none"}

\* Entries whose slot is still allocated (~Entry has not run)
Live == {e \in EntryIds : entries[e].st \in {"alloc", "built", "linked", "retired"}}

\* slots returned to the pool and not handed out again
FreeSlots == {s \in Slots : s < carved /\ \A e \in Live : entries[e].ptr # s}

\* _buffer_size / sizeof(T) slots lie in _memory_buffer; the monotonic
\* resource takes what does not fit from its upstream, the default resource
InArena(s) == s < max_elements

\* _table.find(id): the position of id's node, or end()
Lookup(id) ==
  IF \E e \in table : entries[e].key = id
  THEN CHOOSE e \in table : entries[e].key = id
  ELSE End

\* _table.size()
size == Cardinality(table)

\* (mutant) iterators that protect nothing
Protected_None(e) == FALSE

\* an iterator holds a hazard pointer on its node
Protected(e) == \E t \in Threads : handle[t] = e

\* *it->second.ptr for a Handle on an Entry
HandleValue(h) == mem[entries[h].ptr]

\* a Handle on an Entry that has not been destroyed
Bound(h) == h \in EntryIds /\ entries[h].st \in {"linked", "retired"}

\* what handle.value() can read: the int of the Entry the Handle is on;
\* dereferencing end() is undefined: any int of the model, or garbage
ReadChoices(h) ==
  IF Bound(h) THEN {HandleValue(h)} ELSE Values \cup WriteValues \cup {Garbage}

\* ---- Manager::create(id, args...) and create(unnamed, args...) ----

\* the callers of Spec construct at most MaxCreates Entries
MayConstruct ==
  Cardinality(Constructed) + Cardinality({u \in Threads : pc[u] = "c_entry"}) < MaxCreates

\* the call create(id, v): id and v become the call's arguments
CreateCall(t, id, v) ==
  /\ pc[t] = "idle"
  /\ MayConstruct
  /\ pc' = [pc EXCEPT ![t] = "c_entry"]
  /\ key' = [key EXCEPT ![t] = id]
  /\ val' = [val EXCEPT ![t] = v]
  /\ mine' = [mine EXCEPT ![t] = 0]
  /\ UNCHANGED <<anon, handle, seg, round, table, entries, mem, carved, cnt, history>>

\* constructor arguments on which T's constructor throws: none for int, so
\* Spec has none; SpecThrow is the Manager of a T such as std::string, whose
\* constructor throws when its allocation fails
ThrowingArgs == {0}

\* create(id, v) with v in ThrowingArgs: T{std::forward<Args>(args)...}
\* throws inside create, which is noexcept, so std::terminate ends the
\* process: every thread stops and nothing of the Manager is left
CreateThrows(t, id, v) ==
  /\ pc[t] = "idle"
  /\ v \in ThrowingArgs
  /\ pc' = [u \in Threads |-> "terminated"]
  /\ key' = [u \in Threads |-> <<>>]
  /\ val' = [u \in Threads |-> NoVal]
  /\ mine' = [u \in Threads |-> 0]
  /\ handle' = [u \in Threads |-> NoHandle]
  /\ seg' = [u \in Threads |-> 0]
  /\ round' = [u \in Threads |-> 0]
  /\ table' = {}
  /\ entries' = [e \in EntryIds |-> NoEntry]
  /\ mem' = [s \in Slots |-> Free]
  /\ carved' = 0
  /\ cnt' = [s \in ArgSigs |-> 0]
  /\ anon' = [u \in Threads |-> FALSE]
  /\ lastCreate' = [k \in Ids |-> 0]
  /\ clearClean' = [u \in Threads |-> TRUE]

\* the identifier create(unnamed, ...) of instantiation sig makes up:
\* int id = cnt++; idstr = std::to_string(id)
UnnamedId(sig) == to_string(cnt[sig])

\* the call create(unnamed, v) through the instantiation sig
CreateUnnamedCall(t, sig, v) ==
  /\ pc[t] = "idle"
  /\ MayConstruct
  /\ cnt[sig] < MaxUnnamed
  /\ cnt' = [cnt EXCEPT ![sig] = IncInt(cnt[sig])]
  /\ pc' = [pc EXCEPT ![t] = "c_entry"]
  /\ key' = [key EXCEPT ![t] = UnnamedId(sig)]
  /\ val' = [val EXCEPT ![t] = v]
  /\ mine' = [mine EXCEPT ![t] = 0]
  /\ anon' = [anon EXCEPT ![t] = TRUE]
  /\ UNCHANGED <<handle, seg, round, table, entries, mem, carved, history>>

\* (mutant) an allocator that stops at the end of the buffer and hands out
\* its last slot again
AllocChoices_LastSlotAgain ==
  IF FreeSlots # {} THEN FreeSlots
  ELSE {IF carved < max_elements THEN carved ELSE max_elements - 1}

\* (mutant) a pool that does not track the slots in use and hands out its
\* first slot every time
AllocChoices_FirstSlot == {0}

\* the slots _allocator.allocate(1) can return: a slot of the pool's free
\* list, else the next slot the monotonic resource carves (from the buffer
\* while it lasts, from the upstream resource afterwards: it never fails)
AllocChoices == IF FreeSlots # {} THEN FreeSlots ELSE {carved}

\* (mutant) a node that is linked into the map as soon as its slot is
\* allocated, before the T is constructed in it
EntryAlloc_Linked(t) ==
  /\ pc[t] = "c_entry"
  /\ LET e == Cardinality(Constructed) + 1 IN
     \E s \in AllocChoices :
       /\ entries' = [entries EXCEPT ![e] =
            [key |-> key[t], ptr |-> s, st |-> "alloc", arg |-> NoVal, dirty |-> FALSE]]
       /\ mem' = [mem EXCEPT ![s] = Garbage]
       /\ carved' = IF s = carved THEN carved + 1 ELSE carved
       /\ mine' = [mine EXCEPT ![t] = e]
       /\ table' = table \cup {e}
  /\ pc' = [pc EXCEPT ![t] = "c_construct"]
  /\ UNCHANGED <<anon, key, val, handle, seg, round, cnt, history>>

\* Entry::Entry, its member initializer ptr(_allocator.allocate(1)): one
\* slot, holding no T yet
EntryAlloc(t) ==
  /\ pc[t] = "c_entry"
  /\ LET e == Cardinality(Constructed) + 1 IN
     \E s \in AllocChoices :
       /\ entries' = [entries EXCEPT ![e] =
            [key |-> key[t], ptr |-> s, st |-> "alloc", arg |-> NoVal, dirty |-> FALSE]]
       /\ mem' = [mem EXCEPT ![s] = Garbage]
       /\ carved' = IF s = carved THEN carved + 1 ELSE carved
       /\ mine' = [mine EXCEPT ![t] = e]
  /\ pc' = [pc EXCEPT ![t] = "c_construct"]
  /\ UNCHANGED <<anon, key, val, handle, seg, round, table, cnt, history>>

\* Entry::Entry, its body: new (ptr) T(std::forward<Ts>(args)...)
EntryConstruct(t) ==
  /\ pc[t] = "c_construct"
  /\ entries' = [entries EXCEPT ![mine[t]] =
       [@ EXCEPT !.st = "built", !.arg = val[t], !.dirty = FALSE]]
  /\ mem' = [mem EXCEPT ![entries[mine[t]].ptr] = val[t]]
  /\ val' = [val EXCEPT ![t] = NoVal]
  /\ pc' = [pc EXCEPT ![t] = "c_install"]
  /\ UNCHANGED <<anon, key, mine, handle, seg, round, table, carved, cnt, history>>

\* Entry::Entry(T&&): allocate one slot, then construct the T in it
EntryCtor(t) == EntryAlloc(t) \/ EntryConstruct(t)

\* (mutant) insert_or_assign that links the new node beside the old one
Replaced_None(id) == {}

\* the nodes insert_or_assign(id, ...) unlinks: those already under id
Replaced(id) == {e \in table : entries[e].key = id}

\* (mutant) insert(id, ...) in place of insert_or_assign: a node already
\* under id stays, and the new one is never linked
InsertOnly(t) ==
  /\ pc[t] = "c_install"
  /\ IF Replaced(key[t]) = {}
     THEN /\ table' = table \cup {mine[t]}
          /\ entries' = [entries EXCEPT ![mine[t]].st = "linked"]
     ELSE /\ table' = table
          /\ entries' = [entries EXCEPT ![mine[t]].st = "retired"]
  /\ lastCreate' = [lastCreate EXCEPT ![key[t]] = mine[t]]
  /\ clearClean' = [u \in Threads |-> IF pc[u] = "clear" THEN FALSE ELSE clearClean[u]]
  /\ pc' = [pc EXCEPT ![t] = "c_find"]
  /\ UNCHANGED <<anon, key, val, mine, handle, seg, round, mem, carved, cnt>>

\* (mutant) erase(id) followed by insert(id, ...): the old node is unlinked
\* in one step and the new one linked in a later one
EraseThenInsert(t) ==
  /\ pc[t] = "c_install"
  /\ LET old == Replaced(key[t]) IN
       IF old # {}
       THEN /\ table' = table \ old
            /\ entries' = [e \in EntryIds |->
                 IF e \in old THEN [entries[e] EXCEPT !.st = "retired"] ELSE entries[e]]
            /\ UNCHANGED <<pc, lastCreate>>
       ELSE /\ table' = table \cup {mine[t]}
            /\ entries' = [entries EXCEPT ![mine[t]].st = "linked"]
            /\ lastCreate' = [lastCreate EXCEPT ![key[t]] = mine[t]]
            /\ pc' = [pc EXCEPT ![t] = "c_find"]
  /\ clearClean' = [u \in Threads |-> IF pc[u] = "clear" THEN FALSE ELSE clearClean[u]]
  /\ UNCHANGED <<anon, key, val, mine, handle, seg, round, mem, carved, cnt>>

\* _table.insert_or_assign(id, ...): link the new node, retire the old one
InsertOrAssign(t) ==
  /\ pc[t] = "c_install"
  /\ LET old == Replaced(key[t]) IN
       /\ table' = (table \ old) \cup {mine[t]}
       /\ entries' = [e \in EntryIds |->
            IF e = mine[t] THEN [entries[e] EXCEPT !.st = "linked"]
            ELSE IF e \in old THEN [entries[e] EXCEPT !.st = "retired"]
            ELSE entries[e]]
  /\ lastCreate' = [lastCreate EXCEPT ![key[t]] = mine[t]]
  /\ clearClean' = [u \in Threads |-> IF pc[u] = "clear" THEN FALSE ELSE clearClean[u]]
  /\ pc' = [pc EXCEPT ![t] = "c_find"]
  /\ UNCHANGED <<anon, key, val, mine, handle, seg, round, mem, carved, cnt>>

\* the position create returns: return { _table.find(id) }
CreateResult(t) == Lookup(key[t])

\* create's second statement; the Handle it returns replaces the one t held
CreateReturn(t) ==
  /\ pc[t] = "c_find"
  /\ handle' = [handle EXCEPT ![t] = CreateResult(t)]
  /\ pc' = [pc EXCEPT ![t] = "idle"]
  /\ anon' = [anon EXCEPT ![t] = FALSE]
  /\ UNCHANGED <<key, val, mine, seg, round, table, entries, mem, carved, cnt, history>>

\* ---- Manager::find ----

\* (mutant) find without the comparison with end(): a Handle on whatever
\* position the map returns
FindResult_NoCheck(id) == Lookup(id)

\* what find(id) returns: nullopt (NoHandle) when the position is end()
FindResult(id) == IF Lookup(id) = End THEN NoHandle ELSE Lookup(id)

Find(t, id) ==
  /\ pc[t] = "idle"
  /\ handle' = [handle EXCEPT ![t] = FindResult(id)]
  /\ key' = [key EXCEPT ![t] = <<>>]
  /\ mine' = [mine EXCEPT ![t] = 0]
  /\ UNCHANGED <<anon, pc, val, seg, round, table, entries, mem, carved, cnt, history>>

\* ---- Manager::clear ----

ClearCall(t) ==
  /\ pc[t] = "idle"
  /\ pc' = [pc EXCEPT ![t] = "clear"]
  /\ seg' = [seg EXCEPT ![t] = 0]
  /\ key' = [key EXCEPT ![t] = <<>>]
  /\ mine' = [mine EXCEPT ![t] = 0]
  /\ clearClean' = [clearClean EXCEPT ![t] = TRUE]
  /\ UNCHANGED <<anon, val, handle, round, table, entries, mem, carved, cnt, lastCreate>>

\* the nodes clear() unlinks when it empties segment i
Cleared(i) == {e \in table : SegmentOf(entries[e].key) = i}

\* (mutant) a clear() that skips every other segment
NextSegment_Skip(i) == i + 2

\* the segment clear() works on after segment i
NextSegment(i) == i + 1

\* _table.clear(): one segment emptied, its nodes retired; after the last
\* segment the call returns
ClearSegment(t) ==
  /\ pc[t] = "clear"
  /\ LET gone == Cleared(seg[t]) IN
       /\ table' = table \ gone
       /\ entries' = [e \in EntryIds |->
            IF e \in gone THEN [entries[e] EXCEPT !.st = "retired"] ELSE entries[e]]
       /\ lastCreate' = [k \in Ids |->
            IF \E e \in gone : entries[e].key = k THEN 0 ELSE lastCreate[k]]
  /\ IF NextSegment(seg[t]) >= NumSegments
     THEN /\ pc' = [pc EXCEPT ![t] = "idle"]
          /\ seg' = [seg EXCEPT ![t] = 0]
          /\ clearClean' = [clearClean EXCEPT ![t] = TRUE]
     ELSE /\ seg' = [seg EXCEPT ![t] = NextSegment(seg[t])]
          /\ UNCHANGED <<pc, clearClean>>
  /\ UNCHANGED <<anon, key, val, mine, handle, round, mem, carved, cnt>>

\* ---- Manager::Handle ----

\* (mutant) a Handle that keeps a copy of the instance and stores into the
\* copy, outside the slot of its Entry
WriteChoices_Copy(h) == {MaxEntries - 1}

\* the slots handle.value() = v can write: the slot of the Entry the Handle
\* is on; through end() the store is undefined: any carved slot
WriteChoices(h) ==
  IF Bound(h) THEN {entries[h].ptr} ELSE {s \in Slots : s < carved /\ mem[s] # Free}

\* handle.value() = v
Write(t, v) ==
  /\ pc[t] = "idle"
  /\ handle[t] # NoHandle
  /\ \E s \in WriteChoices(handle[t]) :
       /\ mem[s] # v
       /\ mem' = [mem EXCEPT ![s] = v]
       /\ entries' = [e \in EntryIds |->
            IF e \in Live /\ entries[e].ptr = s
            THEN [entries[e] EXCEPT !.dirty = TRUE] ELSE entries[e]]
  /\ UNCHANGED <<anon, pc, key, val, mine, handle, seg, round, table, carved, cnt, history>>

\* the Handle goes out of scope: its iterator releases the node
Drop(t) ==
  /\ pc[t] = "idle"
  /\ handle[t] # NoHandle
  /\ handle' = [handle EXCEPT ![t] = NoHandle]
  /\ key' = [key EXCEPT ![t] = <<>>]
  /\ mine' = [mine EXCEPT ![t] = 0]
  /\ UNCHANGED <<anon, pc, val, seg, round, table, entries, mem, carved, cnt, history>>

\* ---- reclamation of a retired node: Entry::~Entry ----

\* (mutant) a map that never destroys the nodes it has retired
Reclaimable_Never(e) == FALSE

\* (mutant) reclamation that ignores the iterators' hazard pointers
Reclaimable_Unprotected(e) == entries[e].st = "retired"

\* a retired node may be destroyed once no iterator protects it
Reclaimable(e) == entries[e].st = "retired" /\ ~Protected(e)

\* ptr->~T(); _allocator.deallocate(ptr, 1)
EntryDtor(e) ==
  /\ Reclaimable(e)
  /\ entries' = [entries EXCEPT ![e] = Destroyed]
  /\ mem' = [mem EXCEPT ![entries[e].ptr] = Free]
  /\ UNCHANGED <<anon, pc, key, val, mine, handle, seg, round, table, carved, cnt, history>>

Next ==
  \/ \E t \in Threads, id \in Names, v \in Values : CreateCall(t, id, v)
  \/ \E t \in Threads, sig \in ArgSigs, v \in Values : CreateUnnamedCall(t, sig, v)
  \/ \E t \in Threads : EntryAlloc(t)
  \/ \E t \in Threads : EntryConstruct(t)
  \/ \E t \in Threads : InsertOrAssign(t)
  \/ \E t \in Threads : CreateReturn(t)
  \/ \E t \in Threads, id \in Names : Find(t, id)
  \/ \E t \in Threads : ClearCall(t)
  \/ \E t \in Threads : ClearSegment(t)
  \/ \E t \in Threads, v \in WriteValues : Write(t, v)
  \/ \E t \in Threads : Drop(t)
  \/ \E e \in EntryIds : EntryDtor(e)

Spec == Init /\ [][Next]_vars

\* the Manager of a type whose constructor can throw
NextThrow ==
  \/ Next
  \/ \E t \in Threads, id \in Names, v \in ThrowingArgs : CreateThrows(t, id, v)

SpecThrow == Init /\ [][NextThrow]_vars

\* ---- Manager<T>::Entry used as an object of its own ----
\* Entry is a public member type with a public converting constructor, a
\* defaulted move constructor and a destructor

\* Entry a(v): a local Entry of thread t is about to be constructed
EntryLocalCall(t, v) ==
  /\ pc[t] = "idle"
  /\ MayConstruct
  /\ pc' = [pc EXCEPT ![t] = "c_entry"]
  /\ key' = [key EXCEPT ![t] = <<>>]
  /\ val' = [val EXCEPT ![t] = v]
  /\ mine' = [mine EXCEPT ![t] = 0]
  /\ UNCHANGED <<anon, handle, seg, round, table, entries, mem, carved, cnt, history>>

\* Entry b(std::move(a)), Entry(Entry&&) noexcept = default: b.ptr is a copy
\* of a.ptr, and a keeps its ptr; mine[t] becomes b
EntryMoveCtor(t) ==
  /\ pc[t] = "c_install"
  /\ Cardinality(Constructed) + Cardinality({u \in Threads : pc[u] = "c_entry"}) < MaxEntries
  /\ LET e == Cardinality(Constructed) + 1 IN
       /\ entries' = [entries EXCEPT ![e] = entries[mine[t]]]
       /\ mine' = [mine EXCEPT ![t] = e]
  /\ UNCHANGED <<anon, pc, key, val, handle, seg, round, table, mem, carved, cnt, history>>

\* the local Entries of t that share the ptr of mine[t]: what it was moved from
MovedFrom(t) ==
  {e \in EntryIds \ {mine[t]} :
     entries[e].st = "built" /\ entries[e].ptr = entries[mine[t]].ptr}

\* end of the scope: ~Entry of the local Entries of t, the last constructed
\* first: ptr->~T(); _allocator.deallocate(ptr, 1)
EntryLocalDtor(t) ==
  /\ pc[t] = "c_install"
  /\ entries' = [entries EXCEPT ![mine[t]] = Destroyed]
  /\ mem' = [mem EXCEPT ![entries[mine[t]].ptr] = Free]
  /\ IF MovedFrom(t) # {}
     THEN /\ mine' = [mine EXCEPT ![t] = CHOOSE e \in MovedFrom(t) : \A e2 \in MovedFrom(t) : e2 <= e]
          /\ pc' = pc
     ELSE /\ mine' = [mine EXCEPT ![t] = 0]
          /\ pc' = [pc EXCEPT ![t] = "idle"]
  /\ UNCHANGED <<anon, key, val, handle, seg, round, table, carved, cnt, history>>

NextEntry ==
  \/ \E t \in Threads, v \in Values : EntryLocalCall(t, v)
  \/ \E t \in Threads : EntryAlloc(t)
  \/ \E t \in Threads : EntryConstruct(t)
  \/ \E t \in Threads : EntryMoveCtor(t)
  \/ \E t \in Threads : EntryLocalDtor(t)

SpecEntry == Init /\ [][NextEntry]_vars

\* ---- ConcurrencyStressTest: NumThreads workers, MaxRounds creates each ----

\* auto handle = manager.create(id, i) with id = "thread_<thread_id>_<i>"
StressCreateCall(t) ==
  /\ pc[t] = "idle"
  /\ handle[t] = NoHandle
  /\ round[t] < MaxRounds
  /\ pc' = [pc EXCEPT ![t] = "c_entry"]
  /\ key' = [key EXCEPT ![t] = StressId(t, round[t])]
  /\ val' = [val EXCEPT ![t] = round[t]]
  /\ mine' = [mine EXCEPT ![t] = 0]
  /\ UNCHANGED <<anon, handle, seg, round, table, entries, mem, carved, cnt, history>>

\* the end of the loop body: the Handle goes out of scope, ++i
StressNextRound(t) ==
  /\ pc[t] = "idle"
  /\ handle[t] # NoHandle
  /\ handle' = [handle EXCEPT ![t] = NoHandle]
  /\ key' = [key EXCEPT ![t] = <<>>]
  /\ mine' = [mine EXCEPT ![t] = 0]
  /\ round' = [round EXCEPT ![t] = round[t] + 1]
  /\ UNCHANGED <<anon, pc, val, seg, table, entries, mem, carved, cnt, history>>

NextStress ==
  \/ \E t \in Threads : StressCreateCall(t)
  \/ \E t \in Threads : EntryAlloc(t)
  \/ \E t \in Threads : EntryConstruct(t)
  \/ \E t \in Threads : InsertOrAssign(t)
  \/ \E t \in Threads : CreateReturn(t)
  \/ \E t \in Threads : StressNextRound(t)

SpecStress == Init /\ [][NextStress]_vars

\* ---- the claims ----

\* t's create has returned and t still holds what it returned
Returned(t) == pc[t] = "idle" /\ mine[t] # 0

\* C1: the Handle a create call returns is bound to the Entry that very call
\* inserted, whatever create and clear calls other threads interleave with
\* it: never another thread's Entry, never the end() position.
C1_HandleIsOwnEntry ==
  \A t \in Threads : Returned(t) => handle[t] = mine[t]

\* a step of the model that stores through a Handle
WriteStep == \E t \in Threads, v \in WriteValues : Write(t, v)

\* C2: a Handle obtained before its identifier is overwritten stays on its
\* Entry and keeps reading the value it read before, through the overwrite
\* and through every later step that is no store through a Handle; a find
\* of the identifier, once the overwrite is installed, is on the new Entry
\* and reads the new value (the constructor argument, unless a store through
\* a Handle has hit the new Entry).
C2_HandleKeepsSnapshot ==
  [][ /\ ~WriteStep =>
           \A t \in Threads :
             (Bound(handle[t]) /\ handle'[t] = handle[t]) =>
               /\ Bound(handle[t])'
               /\ HandleValue(handle[t])' = HandleValue(handle[t])
      /\ \A u \in Threads :
           InsertOrAssign(u) =>
             /\ FindResult(key[u])' = mine[u]
             /\ ~entries[mine[u]].dirty =>
                  ReadChoices(mine[u])' = {entries[mine[u]].arg}
    ]_vars

\* C2 happens: a thread holds a Handle on a superseded Entry and reads its
\* old value, while find of the same identifier reads another value
C2_Witness ==
  \E t \in Threads :
    /\ Bound(handle[t])
    /\ entries[handle[t]].st = "retired"
    /\ FindResult(entries[handle[t]].key) \in EntryIds
    /\ HandleValue(handle[t]) = entries[handle[t]].arg
    /\ HandleValue(FindResult(entries[handle[t]].key)) # HandleValue(handle[t])

\* every thread's last call is a create on k that has returned
AllCreated(k) == \A t \in Threads : Returned(t) /\ key[t] = k

\* the nodes linked under k
NodesOf(k) == {e \in table : entries[e].key = k}

\* C3: once every thread's create on one identifier has returned, the
\* registry holds exactly one Entry under it: the Entry of one of these
\* calls, and find reads the value that call wrote.
C3_OneOfTheWrites ==
  \A k \in Ids :
    AllCreated(k) =>
      /\ Cardinality(NodesOf(k)) = 1
      /\ FindResult(k) \in {mine[t] : t \in Threads}
      /\ ~entries[FindResult(k)].dirty =>
           ReadChoices(FindResult(k)) = {entries[FindResult(k)].arg}

\* C3 happens: the threads have created one identifier with distinct
\* values, concurrently (the loser's Entry was superseded before the loser's
\* call returned it)
C3_Witness ==
  \E k \in Ids :
    /\ AllCreated(k)
    /\ \A t, u \in Threads : t # u => mine[t] # mine[u]
    /\ \E t \in Threads : handle[t] # mine[t]
    /\ \E t \in Threads : HandleValue(FindResult(k)) # entries[mine[t]].arg

\* the identifiers the instantiation sig of create(unnamed, ...) has issued
Issued(sig) == {to_string(i) : i \in 0..(cnt[sig] - 1)}

\* C4: no identifier is issued to two create(unnamed, ...) calls, whatever
\* the types of their constructor arguments.
C4_UnnamedIdsDistinct ==
  \A s1, s2 \in ArgSigs : s1 # s2 => Issued(s1) \cap Issued(s2) = {}

\* C5: a create that would bring the live Entries above max_elements
\* reports a capacity error: it never goes on to install an Entry while
\* more than max_elements Entries are live.
C5_CapacityError ==
  \A t \in Threads : pc[t] = "c_install" => Cardinality(Live) <= max_elements

\* every worker of the stress test has finished its loop
StressDone == \A t \in Threads : pc[t] = "idle" /\ round[t] = MaxRounds

\* C6: workers creating pairwise distinct identifiers: every create returns
\* a Handle on its own Entry reading the value passed (the round i), also
\* when more Entries are live than max_elements, and when all workers are
\* done size() is the number of identifiers created.
C6_StressCreatesSucceed ==
  /\ \A t \in Threads :
       Returned(t) => handle[t] = mine[t] /\ ReadChoices(handle[t]) = {round[t]}
  /\ StressDone => size = NumThreads * MaxRounds

\* C6 happens: all workers are done and the registry holds more Entries
\* than max_elements
C6_Witness == StressDone /\ size > max_elements

\* a step of create by thread t that acts on the Manager's state
CreateStep(t) == EntryCtor(t) \/ InsertOrAssign(t) \/ CreateReturn(t)

\* C7: the registry never holds two Entries under one identifier;
\* installing under an identifier that is present leaves size() as it was,
\* under an absent one adds exactly one; the other steps of create leave it.
C7_OneEntryPerId ==
  /\ [](\A k \in Ids : Cardinality(NodesOf(k)) <= 1)
  /\ [][\A t \in Threads :
          /\ InsertOrAssign(t) =>
               size' = (IF Lookup(key[t]) # End THEN size ELSE size + 1)
          /\ (EntryCtor(t) \/ CreateReturn(t)) => size' = size]_vars

\* C7 happens: a create has overwritten its identifier: the old Entry is
\* retired, the new one is the only node under it, and size() is still 1
C7_Witness ==
  \E t \in Threads :
    /\ pc[t] = "c_find"
    /\ \E e \in EntryIds : entries[e].st = "retired" /\ entries[e].key = key[t]
    /\ NodesOf(key[t]) = {mine[t]}
    /\ size = 1

\* C8: find(k), when creates have installed under k and no clear has
\* removed k since, returns a Handle (not an empty result) on the Entry of
\* the last of these creates, reading the value that create was given (as
\* long as no store through a Handle has hit that Entry).
C8_FindAfterCreate ==
  [][\A t \in Threads, k \in Names :
       (Find(t, k) /\ lastCreate[k] # 0) =>
         /\ handle'[t] = lastCreate[k]
         /\ ~entries[lastCreate[k]].dirty =>
              ReadChoices(lastCreate[k])' = {entries[lastCreate[k]].arg}]_vars

\* C8 happens: a thread holds the Handle find gave it for an identifier
\* that was created twice, and reads the second create's value
C8_Witness ==
  \E t \in Threads, k \in Names :
    /\ pc[t] = "idle" /\ mine[t] = 0
    /\ handle[t] = lastCreate[k] /\ Bound(handle[t])
    /\ \E e \in EntryIds : e # handle[t] /\ entries[e].st = "retired" /\ entries[e].key = k
                           /\ entries[e].arg # entries[handle[t]].arg
    /\ HandleValue(handle[t]) = entries[handle[t]].arg

\* C9: no step of a create under k1 changes what find(k2) returns for an
\* identifier k2 # k1: present or not, the same Entry, the same value.
C9_CreateFrame ==
  [][\A t \in Threads :
       CreateStep(t) =>
         \A k2 \in Ids \ {key[t]} :
           /\ FindResult(k2)' = FindResult(k2)
           /\ FindResult(k2) # NoHandle => ReadChoices(FindResult(k2))' = ReadChoices(FindResult(k2))]_vars

\* C9 happens: a create has installed its Entry while another identifier
\* is present
C9_Witness ==
  \E t \in Threads :
    /\ pc[t] = "c_find"
    /\ mine[t] \in table
    /\ \E e \in table : entries[e].key # key[t]

\* C10: when clear() returns and no insert_or_assign ran during it, find is
\* empty for every identifier and size() is zero.
C10_ClearEmpties ==
  [][\A t \in Threads :
       (ClearSegment(t) /\ pc'[t] = "idle" /\ clearClean[t]) =>
         /\ size' = 0
         /\ \A k \in Ids : FindResult(k)' = NoHandle]_vars

\* C10 happens: a clear() that found identifiers in two segments has
\* emptied the first and is about to empty the last, undisturbed
C10_Witness ==
  \E t \in Threads :
    /\ pc[t] = "clear" /\ clearClean[t]
    /\ NextSegment(seg[t]) >= NumSegments
    /\ Cleared(seg[t]) # {}
    /\ \E e \in EntryIds : entries[e].st = "retired" /\ SegmentOf(entries[e].key) # seg[t]

\* an Entry a find can deliver or a Handle is on
Observable(e) == e \in table \/ Protected(e)

\* C11: every Entry that find can deliver, or that a reader holds a Handle
\* on, holds a completely constructed instance: its slot holds the value of
\* the one constructor call that built it (or a value stored through a
\* Handle afterwards), never storage that is still to be constructed,
\* whatever the creates on the same identifier are doing.
C11_NoPartialInstance ==
  \A e \in EntryIds :
    Observable(e) =>
      /\ entries[e].st \in {"linked", "retired"}
      /\ HandleValue(e) # Garbage
      /\ ~entries[e].dirty => HandleValue(e) = entries[e].arg /\ entries[e].arg \in Values

\* C11 happens: a reader holds a Handle from find on the current Entry of an
\* identifier while a create on the same identifier has allocated its slot
\* and has not constructed the instance in it yet
C11_Witness ==
  \E t, u \in Threads :
    /\ pc[t] = "idle" /\ mine[t] = 0
    /\ handle[t] \in table
    /\ pc[u] = "c_construct"
    /\ key[u] = entries[handle[t]].key
    /\ mem[entries[mine[u]].ptr] = Garbage

\* C12: an identifier that has been created, and that no clear() has
\* removed since, is found in every state: find on it is never empty, also
\* while other threads are replacing its Entry.
C12_NoWindowOfAbsence ==
  \A k \in Ids :
    lastCreate[k] # 0 =>
      /\ FindResult(k) # NoHandle
      /\ entries[FindResult(k)].key = k

\* C12 happens: a reader holds a Handle from find on an Entry of an
\* identifier that a newer Entry under the same identifier has taken the
\* place of, and the create that installed the newer one has not returned
C12_Witness ==
  \E t, u \in Threads :
    /\ pc[t] = "idle" /\ mine[t] = 0
    /\ Bound(handle[t]) /\ entries[handle[t]].st = "retired"
    /\ pc[u] = "c_find"
    /\ key[u] = entries[handle[t]].key
    /\ lastCreate[key[u]] = mine[u]
    /\ FindResult(key[u]) = mine[u]

\* C13: a value stored through a Handle is what every Handle on the same
\* Entry reads from then on, and what a Handle from a later find reads while
\* that Entry is the current one of its identifier: the store is to the
\* Entry's own slot, and the slot keeps a stored value.
C13_WriteSharedByHandles ==
  /\ [][\A t \in Threads, v \in WriteValues :
          (Write(t, v) /\ Bound(handle[t])) =>
            /\ \A u \in Threads :
                 handle[u] = handle[t] => ReadChoices(handle[u])' = {v}
            /\ \A k \in Ids :
                 FindResult(k) = handle[t] => ReadChoices(FindResult(k))' = {v}]_vars
  /\ [](\A e \in EntryIds :
          (Bound(e) /\ entries[e].dirty) => HandleValue(e) \in WriteValues)

\* C13 happens: two threads hold Handles on the same current Entry, one of
\* them from find, and the Entry holds a value stored through a Handle
C13_Witness ==
  \E t, u \in Threads :
    /\ t # u
    /\ pc[t] = "idle" /\ pc[u] = "idle"
    /\ handle[t] = handle[u]
    /\ mine[t] = 0
    /\ handle[t] \in table
    /\ entries[handle[t]].dirty
    /\ FindResult(entries[handle[t]].key) = handle[t]
    /\ HandleValue(handle[t]) \in WriteValues

\* C14: find on an identifier that is not in the table returns the empty
\* result and changes nothing of the registry: the same Entries under the
\* same identifiers with the same values, and the same size().
C14_FindAbsent ==
  [][\A t \in Threads, k \in Ids :
       (Find(t, k) /\ Lookup(k) = End) =>
         /\ handle'[t] = NoHandle
         /\ table' = table /\ entries' = entries /\ mem' = mem
         /\ size' = size
         /\ \A k2 \in Ids : FindResult(k2)' = FindResult(k2)]_vars

\* C14 happens: the registry is not empty, a create of an identifier that is
\* not in the table yet is about to install its Entry, and another thread's
\* find has come back empty
C14_Witness ==
  \E t, u \in Threads :
    /\ pc[u] = "c_install" /\ Lookup(key[u]) = End
    /\ table # {}
    /\ pc[t] = "idle" /\ handle[t] = NoHandle /\ mine[t] = 0 /\ key[t] = <<>>

\* C15: the Entry a held Handle is on has not been destroyed, whether it is
\* current, superseded or cleared; its slot is neither free nor the slot of
\* another Entry, and what the Handle reads is the Entry's constructor
\* argument or a value stored into the Entry's slot, never another Entry's.
C15_HeldEntryAlive ==
  \A t \in Threads :
    handle[t] \in EntryIds =>
      LET h == handle[t] IN
        /\ Bound(h)
        /\ entries[h].ptr \notin FreeSlots
        /\ HandleValue(h) # Free
        /\ \A e \in Live \ {h} : entries[e].ptr # entries[h].ptr
        /\ HandleValue(h) \in {entries[h].arg} \cup WriteValues

\* C15 happens: a thread holds a Handle on an Entry that clear() removed,
\* its identifier is gone from the table, and an Entry constructed since
\* then is in the table
C15_Witness ==
  \E t \in Threads :
    /\ Bound(handle[t])
    /\ entries[handle[t]].st = "retired"
    /\ Lookup(entries[handle[t]].key) = End
    /\ \E e \in table : e > handle[t]

\* C16: in every state at most max_elements slots are in use, and every
\* slot an Entry holds lies inside the fixed arena: no allocation is served
\* from other memory.
C16_SlotsInArena ==
  /\ Cardinality({entries[e].ptr : e \in Live}) <= max_elements
  /\ \A e \in Live : InArena(entries[e].ptr)

\* the map's reclamation runs: a retired node that stays unprotected is
\* destroyed at some point
SpecFair == Spec /\ \A e \in EntryIds : WF_vars(EntryDtor(e))

C18_CtorFailureReported ==
  [][\A t \in Threads, k \in Names, v \in ThrowingArgs :
       CreateThrows(t, k, v) =>
         /\ pc'[t] = "idle"
         /\ \A u \in Threads \ {t} : pc'[u] = pc[u]
         /\ table' = table /\ entries' = entries
         /\ size' = size
         /\ \A k2 \in Ids : FindResult(k2)' = FindResult(k2)]_vars

\* C19: every slot in use is the slot of exactly one Entry, no Entry holds a
\* slot that has been released (so none is released twice), and no slot in
\* use is without an Entry (none is leaked), also after an Entry has been
\* moved.
C19_SlotOwnedOnce ==
  /\ \A e1, e2 \in Live : e1 # e2 => entries[e1].ptr # entries[e2].ptr
  /\ \A e \in Live : mem[entries[e].ptr] # Free
  /\ \A s \in Slots : (s < carved /\ mem[s] # Free) => \E e \in Live : entries[e].ptr = s

\* C20: the insert_or_assign of a create(unnamed, ...) supersedes nothing,
\* whatever identifiers were created by name before: it adds an identifier,
\* every Entry in the table stays in it and is what find returns for its
\* identifier, and size() grows by exactly one.
C20_UnnamedAddsNew ==
  [][\A t \in Threads :
       (InsertOrAssign(t) /\ anon[t]) =>
         /\ Replaced(key[t]) = {}
         /\ table \subseteq table'
         /\ size' = size + 1
         /\ \A k \in Ids :
              FindResult(k) # NoHandle => FindResult(k)' = FindResult(k)]_vars

=============================================================================
